---- MODULE Spec2Model ----
(***************************************************************************)
(* The zod adapter of vee-validate (packages/zod/src/index.ts):            *)
(* toTypedSchema binds a schema and returns a facade with parse, cast and  *)
(* describe.  Strings the code splits or joins are sequences of one-       *)
(* character strings; a JavaScript object is a function from keys to       *)
(* values; the errors record of parse is the sequence of its own entries   *)
(* in insertion order, with Object.prototype behind it.                    *)
(***************************************************************************)
EXTENDS Integers, Sequences, FiniteSets, TLC

VARIABLES
    schemas,     \* facade -> the schema toTypedSchema closed over
    providers,   \* default-value provider -> what calling it yields
    mergeWrites, \* whether merge writes into its target or builds a new object
    pending,     \* parse calls suspended on safeParseAsync
    last         \* the call that completed last: its input and its outcome

vars == <<schemas, providers, mergeWrites, pending, last>>

\* ---------------------------------------------------------------- bounds

MaxSegs == 3       \* pieces a describe path is built from
MaxIssues == 3     \* issues in one failed validation, nested ones included
MaxPending == 2    \* parse calls suspended at the same time

\* ------------------------------------------------------- character strings

Digits == {"0", "1", "2", "3", "4", "5", "6", "7", "8", "9"}

Ka == <<"a">>
Kc == <<"c">>
Kd == <<"d">>
Kconstructor == <<"c", "o", "n", "s", "t", "r", "u", "c", "t", "o", "r">>

\* The keys every plain object answers to without declaring them: the members
\* of Object.prototype, which is behind the shape literal of an object schema
\* and behind the errors record of parse.
ObjectPrototype ==
    {Kconstructor,
     <<"t", "o", "S", "t", "r", "i", "n", "g">>,
     <<"t", "o", "L", "o", "c", "a", "l", "e", "S", "t", "r", "i", "n", "g">>,
     <<"v", "a", "l", "u", "e", "O", "f">>,
     <<"h", "a", "s", "O", "w", "n", "P", "r", "o", "p", "e", "r", "t", "y">>,
     <<"i", "s", "P", "r", "o", "t", "o", "t", "y", "p", "e", "O", "f">>,
     <<"p", "r", "o", "p", "e", "r", "t", "y", "I", "s", "E", "n", "u", "m", "e", "r", "a", "b", "l", "e">>,
     <<"_", "_", "p", "r", "o", "t", "o", "_", "_">>,
     <<"_", "_", "d", "e", "f", "i", "n", "e", "G", "e", "t", "t", "e", "r", "_", "_">>,
     <<"_", "_", "d", "e", "f", "i", "n", "e", "S", "e", "t", "t", "e", "r", "_", "_">>,
     <<"_", "_", "l", "o", "o", "k", "u", "p", "G", "e", "t", "t", "e", "r", "_", "_">>,
     <<"_", "_", "l", "o", "o", "k", "u", "p", "S", "e", "t", "t", "e", "r", "_", "_">>}

IsDigits(s) == Len(s) > 0 /\ \A i \in 1..Len(s) : s[i] \in Digits

\* The position of the "]" closing a match of \[(\d+)\] that starts at i, or 0.
RECURSIVE DigitRunEnd(_, _)
DigitRunEnd(s, j) ==
    IF j <= Len(s) /\ s[j] \in Digits THEN DigitRunEnd(s, j + 1) ELSE j

BracketEnd(s, i) ==
    IF s[i] # "[" THEN 0
    ELSE LET j == DigitRunEnd(s, i + 1)
         IN  IF j > i + 1 /\ j <= Len(s) /\ s[j] = "]" THEN j ELSE 0

\* path.split(/\.|\[(\d+)\]/): the pieces between separators, with the digits a
\* bracket separator captured spliced in (a dot captures nothing).
RECURSIVE SplitFrom(_, _, _, _)
SplitFrom(s, i, cur, acc) ==
    IF i > Len(s) THEN Append(acc, cur)
    ELSE IF s[i] = "." THEN SplitFrom(s, i + 1, <<>>, Append(acc, cur))
    ELSE LET j == BracketEnd(s, i)
         IN  IF j > 0
             THEN SplitFrom(s, j + 1, <<>>, acc \o <<cur, SubSeq(s, i + 1, j - 1)>>)
             ELSE SplitFrom(s, i + 1, Append(cur, s[i]), acc)

\* .filter(Boolean): the empty pieces are dropped.
SplitPath(path) == SelectSeq(SplitFrom(path, 1, <<>>, <<>>), LAMBDA p : p # <<>>)

\* isIndex of the shared helpers, on the pieces a split can produce.
isIndex(p) == IsDigits(p)

\* A path with no dot and no bracket: one plain key.
isNotNestedPath(path) ==
    /\ path # <<>>
    /\ \A i \in 1..Len(path) : path[i] \notin {".", "[", "]"}

\* A plain key is looked up as it stands.
cleanupNonNestedPath(path) == path

\* ------------------------------------------------------------------ values

Undefined == [t |-> "undefined"]
NullValue == [t |-> "null"]
ArrayValue == [t |-> "array"]
Thrown == [t |-> "throw"]
Num(n) == [t |-> "number", n |-> n]
Obj(f) == [t |-> "object", f |-> f]

\* What _def.defaultValue of a declared default is.  In zod 3 it is a function
\* that returns the default (p1, p2) or throws (p3); in zod 4 it is the default
\* itself (v4, the number 1), and calling it throws a TypeError.
DeclaredProviders ==
    ("p1" :> [callable |-> TRUE, throws |-> FALSE, value |-> Num(1)])
        @@ ("p2" :> [callable |-> TRUE, throws |-> FALSE,
                     value |-> Obj((Ka :> Num(1)) @@ (Kc :> Num(2)))])
        @@ ("p3" :> [callable |-> TRUE, throws |-> TRUE, value |-> Undefined])
        @@ ("v4" :> [callable |-> FALSE, throws |-> FALSE, value |-> Num(1)])

\* ----------------------------------------------------------------- schemas

\* What the adapter reads of a schema, each on its own: the class it is an
\* instance of (instanceof the classes index.ts imports), the type name in its
\* definition ("none" when the definition has no such entry), isOptional()
\* (which throws on a schema that can only be parsed asynchronously), an
\* object's shape, an array's element type, a default's provider.  The
\* constructors below build a schema of the imported copy of the library that
\* also carries its type name.
Null == [instanceOf |-> "null", typeName |-> "null"]
ZodString == [instanceOf |-> "ZodString", typeName |-> "ZodString", isOptional |-> "no"]
ZodOptional == [instanceOf |-> "ZodOptional", typeName |-> "ZodOptional", isOptional |-> "yes"]
ZodAsync == [instanceOf |-> "ZodEffects", typeName |-> "ZodEffects", isOptional |-> "throws"]
\* isOptional() of a default of zod 3 is safeParse(undefined).success, which
\* calls the provider: it throws when the provider does.
ZodDefault(p) ==
    [instanceOf |-> "ZodDefault", typeName |-> "ZodDefault",
     isOptional |-> IF DeclaredProviders[p].throws THEN "throws" ELSE "yes",
     defaultValue |-> p]
ZodArray(t) ==
    [instanceOf |-> "ZodArray", typeName |-> "ZodArray", isOptional |-> "no", type |-> t]
ZodObject(sh) ==
    [instanceOf |-> "ZodObject", typeName |-> "ZodObject", isOptional |-> "no", shape |-> sh]

\* A schema of the imported classes whose definition has no typeName (zod 4),
\* and a schema with the typeName that another copy of the library made.
Untyped(schema) == [schema EXCEPT !.typeName = "none"]

\* z.number().default(1) of zod 4: no typeName, and _def.defaultValue is the
\* default itself.
ZodDefault4 ==
    [instanceOf |-> "ZodDefault", typeName |-> "none", isOptional |-> "yes",
     defaultValue |-> "v4"]
Foreign(schema) == [schema EXCEPT !.instanceOf = "none"]

\* A member of Object.prototype read where a schema was expected: it has no
\* definition, and calling isOptional on it throws.
Inherited == [instanceOf |-> "none", typeName |-> "none", isOptional |-> "throws"]

getDefType(schema) == schema.typeName
isArraySchema(schema) == getDefType(schema) = "ZodArray"
isObjectSchema(schema) == getDefType(schema) = "ZodObject"

\* shape[p], a plain property read: the declared field, else the member of
\* Object.prototype of that name, else undefined.
ShapeAt(schema, p) ==
    IF p \in DOMAIN schema.shape THEN schema.shape[p]
    ELSE IF p \in ObjectPrototype THEN Inherited
    ELSE Null

\* The walk with the descent into an array's element type ending it.
RECURSIVE WalkReturnsElement(_, _, _)
WalkReturnsElement(paths, i, currentSchema) ==
    IF i > Len(paths) + 1 THEN Null
    ELSE IF i = Len(paths) + 1 \/ currentSchema = Null THEN currentSchema
    ELSE IF isObjectSchema(currentSchema)
         THEN WalkReturnsElement(paths, i + 1, ShapeAt(currentSchema, paths[i]))
    ELSE IF isIndex(paths[i]) /\ isArraySchema(currentSchema) THEN currentSchema.type
    ELSE WalkReturnsElement(paths, i + 1, currentSchema)

\* The loop of getSchemaForPath; i counts from 1, so p is undefined at
\* i = Len(paths) + 1, the loop's last round.
RECURSIVE Walk(_, _, _)
Walk(paths, i, currentSchema) ==
    IF i > Len(paths) + 1 THEN Null
    ELSE IF i = Len(paths) + 1 \/ currentSchema = Null THEN currentSchema
    ELSE IF isObjectSchema(currentSchema)
         THEN Walk(paths, i + 1, ShapeAt(currentSchema, paths[i]))
    ELSE IF isIndex(paths[i]) /\ isArraySchema(currentSchema)
         THEN Walk(paths, i + 1, currentSchema.type)
    ELSE Walk(paths, i + 1, currentSchema)

getSchemaForPath(path, schema) ==
    IF ~isObjectSchema(schema) THEN Null
    ELSE IF isNotNestedPath(path) THEN ShapeAt(schema, cleanupNonNestedPath(path))
    ELSE Walk(SplitPath(path), 1, schema)

NotFound == [required |-> FALSE, exists |-> FALSE]

\* { required: !s.isOptional(), exists: true } inside describe's try block.
Description(s) ==
    IF s.isOptional = "throws" THEN NotFound
    ELSE [required |-> (s.isOptional = "no"), exists |-> TRUE]

describe(path, zodSchema) ==
    IF path = <<>> THEN Description(zodSchema)
    ELSE LET description == getSchemaForPath(path, zodSchema)
         IN  IF description = Null THEN NotFound ELSE Description(description)

\* ------------------------------------------------- defaults and the merge

\* isObject of the shared helpers: a non-null object that is no array.
isObject(v) == v.t = "object"

\* merge of the shared helpers, the value it returns: the source's fields over
\* the target's, field by field where both hold an object.  Whether it writes
\* that value into the target is mergeWrites.
RECURSIVE merge(_, _)
merge(target, source) ==
    Obj([k \in (DOMAIN target.f) \cup (DOMAIN source.f) |->
            IF k \notin DOMAIN source.f THEN target.f[k]
            ELSE IF k \in DOMAIN target.f /\ isObject(source.f[k]) /\ isObject(target.f[k])
                 THEN merge(target.f[k], source.f[k])
            ELSE source.f[k]])

\* One entry of getDefaults' map; Thrown when the call _def.defaultValue()
\* throws: the provider throws, or _def.defaultValue is no function.
RECURSIVE getDefaults(_)
FieldDefault(value) ==
    IF value.instanceOf = "ZodDefault"
    THEN LET provider == providers[value.defaultValue]
         IN  IF ~provider.callable \/ provider.throws THEN Thrown ELSE provider.value
    ELSE IF value.instanceOf = "ZodObject" THEN getDefaults(value)
    ELSE Undefined

getDefaults(schema) ==
    IF schema.instanceOf # "ZodObject" THEN Undefined
    ELSE LET entries == [k \in DOMAIN schema.shape |-> FieldDefault(schema.shape[k])]
         IN  IF \E k \in DOMAIN entries : entries[k] = Thrown THEN Thrown
             ELSE Obj(entries)

\* cast: strict is what zodSchema.parse(values) did (returned data, or threw).
cast(zodSchema, values, strict) ==
    IF strict.ok THEN [threw |-> FALSE, value |-> strict.data]
    ELSE LET defaults == getDefaults(zodSchema)
         IN  IF defaults = Thrown THEN [threw |-> TRUE, value |-> Thrown]
             ELSE IF isObject(defaults) /\ isObject(values)
                  THEN [threw |-> FALSE, value |-> merge(defaults, values)]
             ELSE [threw |-> FALSE, value |-> values]

\* ------------------------------------------------------------------ issues

DigitChar == <<"0", "1", "2", "3", "4", "5", "6", "7", "8", "9">>
DigitVal(c) == CHOOSE n \in 0..9 : DigitChar[n + 1] = c

\* A segment of issue.path: a string key, or a number (join writes it in decimal).
Key(s) == [isNum |-> FALSE, s |-> s]
Index(n) == [isNum |-> TRUE, s |-> <<DigitChar[n + 1]>>]

\* issue.path.join('.')
RECURSIVE Join(_)
Join(path) ==
    IF path = <<>> THEN <<>>
    ELSE IF Len(path) = 1 THEN path[1].s
    ELSE path[1].s \o <<".">> \o Join(Tail(path))

\* normalizeFormPath of the shared helpers: a bracketed index becomes a dotted
\* segment.
RECURSIVE NormFrom(_, _, _)
NormFrom(s, i, out) ==
    IF i > Len(s) THEN out
    ELSE LET j == BracketEnd(s, i)
         IN  IF j > 0
             THEN NormFrom(s, j + 1,
                           out \o (IF out = <<>> THEN <<>> ELSE <<".">>) \o SubSeq(s, i + 1, j - 1))
             ELSE NormFrom(s, i + 1, Append(out, s[i]))

normalizeFormPath(s) == NormFrom(s, 1, <<>>)

\* The errors record of parse: its own entries in insertion order, and whether
\* filling it threw (which ends processIssues and every round still to come).
NoErrors == [threw |-> FALSE, entries |-> <<>>]

HasEntry(errors, path) == \E i \in DOMAIN errors.entries : errors.entries[i].path = path

\* errors[path] created when the read of errors[path] is falsy, then
\* errors[path].errors.push(message).  The read of a key that names a member of
\* Object.prototype is truthy with no entry made: no entry is created, the
\* member has no errors list, and the push throws.
Push(errors, path, message) ==
    IF errors.threw THEN errors
    ELSE IF HasEntry(errors, path)
    THEN LET es == errors.entries
         IN  [errors EXCEPT !.entries =
                 [i \in DOMAIN es |->
                     IF es[i].path = path THEN [es[i] EXCEPT !.errors = Append(@, message)]
                     ELSE es[i]]]
    ELSE IF path \in ObjectPrototype THEN [errors EXCEPT !.threw = TRUE]
    ELSE [errors EXCEPT !.entries = Append(@, [errors |-> <<message>>, path |-> path])]

\* unionErrors.flatMap(ue => ue.issues)
RECURSIVE FlatMapIssues(_)
FlatMapIssues(unionErrors) ==
    IF unionErrors = <<>> THEN <<>>
    ELSE Head(unionErrors).issues \o FlatMapIssues(Tail(unionErrors))

RECURSIVE processIssues(_, _)

\* ProcessIssue with the early return taken for a failed union on any path.
ProcessIssueSilentUnion(issue, errors) ==
    LET path == normalizeFormPath(Join(issue.path))
        nested == IF issue.code = "invalid_union" /\ issue.hasUnionErrors
                  THEN processIssues(FlatMapIssues(issue.unionErrors), errors)
                  ELSE errors
    IN  IF issue.code = "invalid_union" THEN nested
        ELSE Push(nested, path, issue.message)

\* One round of processIssues' forEach.
ProcessIssue(issue, errors) ==
    LET path == normalizeFormPath(Join(issue.path))
        nested == IF issue.code = "invalid_union" /\ issue.hasUnionErrors
                  THEN processIssues(FlatMapIssues(issue.unionErrors), errors)
                  ELSE errors
    IN  IF issue.code = "invalid_union" /\ path = <<>> THEN nested
        ELSE Push(nested, path, issue.message)

processIssues(issues, errors) ==
    IF issues = <<>> \/ errors.threw THEN errors
    ELSE processIssues(Tail(issues), ProcessIssue(Head(issues), errors))

\* Object.values of a record: the keys that are array indices (canonical
\* numerals up to 2^32 - 2) first, in ascending numeric order, then the other
\* keys in insertion order.
RECURSIVE LexLess(_, _, _)
LexLess(a, b, i) ==
    /\ i <= Len(a)
    /\ \/ DigitVal(a[i]) < DigitVal(b[i])
       \/ a[i] = b[i] /\ LexLess(a, b, i + 1)

NumLess(a, b) == Len(a) < Len(b) \/ (Len(a) = Len(b) /\ LexLess(a, b, 1))

\* 2^32 - 1, the first numeral that is no array index.
IndexLimit == <<"4", "2", "9", "4", "9", "6", "7", "2", "9", "5">>

IsArrayIndex(k) ==
    /\ IsDigits(k)
    /\ Len(k) = 1 \/ k[1] # "0"
    /\ NumLess(k, IndexLimit)

RECURSIVE SortByIndex(_)
SortByIndex(S) ==
    IF S = {} THEN <<>>
    ELSE LET m == CHOOSE e \in S : \A o \in S \ {e} : NumLess(e.path, o.path)
         IN  <<m>> \o SortByIndex(S \ {m})

ObjectValues(errors) ==
    SortByIndex({errors[i] : i \in {j \in DOMAIN errors : IsArrayIndex(errors[j].path)}})
        \o SelectSeq(errors, LAMBDA e : ~IsArrayIndex(e.path))

\* What awaiting safeParseAsync(value, opts) comes to: the promise resolves to a
\* success or to a failure, or it rejects.
Success(data) == [outcome |-> "resolved", success |-> TRUE, data |-> data]
Failure(issues) == [outcome |-> "resolved", success |-> FALSE, issues |-> issues]
Rejected == [outcome |-> "rejected"]

\* safeParseAsync throwing before it returns a promise.
ThrewSync == [outcome |-> "threw"]

\* parse returning the value it was given in place of the validated data.
parseEcho(value, result) ==
    IF result.outcome # "resolved" THEN Thrown
    ELSE IF result.success THEN [value |-> value, errors |-> <<>>]
    ELSE LET errors == processIssues(result.issues, NoErrors)
         IN  IF errors.threw THEN Thrown ELSE [errors |-> ObjectValues(errors.entries)]

\* parse, with what the call and the await of safeParseAsync(value, opts) came
\* to.  Nothing in parse catches: Thrown is the promise of parse rejecting.
parse(value, result) ==
    IF result.outcome # "resolved" THEN Thrown
    ELSE IF result.success THEN [value |-> result.data, errors |-> <<>>]
    ELSE LET errors == processIssues(result.issues, NoErrors)
         IN  IF errors.threw THEN Thrown ELSE [errors |-> ObjectValues(errors.entries)]

\* ------------------------------------------------------------ the facades

Facades == {"form", "list", "broken", "untyped", "foreign", "mixed"}

\* form: z.object({ a: <object>.default({a: 1, c: 2}),
\*                  c: z.array(z.object({ a: z.string(), c: z.string().optional() })),
\*                  d: z.object({ a: z.number().default(1), c: <async refinement> }) })
Elem == ZodObject((Ka :> ZodString) @@ (Kc :> ZodOptional))
Form ==
    ZodObject((Ka :> ZodDefault("p2"))
                  @@ (Kc :> ZodArray(Elem))
                  @@ (Kd :> ZodObject((Ka :> ZodDefault("p1")) @@ (Kc :> ZodAsync))))

\* list: z.array(z.string()); broken: an object whose default provider throws.
List == ZodArray(ZodString)
\* broken also has d: z.array(z.string()).
Broken ==
    ZodObject((Ka :> ZodDefault("p3")) @@ (Kc :> ZodString) @@ (Kd :> ZodArray(ZodString)))

\* untyped: z.object({ a: z.number().default(1), c: z.string() }) of zod 4,
\* whose definitions have no typeName.
UntypedForm ==
    Untyped(ZodObject((Ka :> ZodDefault4) @@ (Kc :> Untyped(ZodString))))

\* foreign: the same schema with type names, made by another copy of the
\* library, and d: z.array(z.array(z.string())).
ForeignForm ==
    Foreign(ZodObject((Ka :> Foreign(ZodDefault("p1")))
                          @@ (Kc :> Foreign(ZodString))
                          @@ (Kd :> Foreign(ZodArray(Foreign(ZodArray(Foreign(ZodString))))))))

\* mixed: an object of the imported copy whose fields a and d another copy made.
MixedForm ==
    ZodObject((Ka :> Foreign(ZodDefault("p1")))
                  @@ (Kc :> ZodString)
                  @@ (Kd :> Foreign(ZodObject(Ka :> Foreign(ZodDefault("p1"))))))

BoundSchemas ==
    ("form" :> Form) @@ ("list" :> List) @@ ("broken" :> Broken)
        @@ ("untyped" :> UntypedForm) @@ ("foreign" :> ForeignForm)
        @@ ("mixed" :> MixedForm)

\* parse reads nothing of the schema but what safeParseAsync comes to: two
\* facades stand for all of them.
ParseFacades == {"form", "list"}

\* ------------------------------------------------------------------ inputs

\* describe's paths: a first piece and up to MaxSegs - 1 further pieces.
FirstPieces == {<<>>, Ka, Kc, Kd, <<"x">>, Kconstructor, <<"[", "0", "]">>}
NextPieces ==
    {<<".", "a">>, <<".", "c">>, <<".", "x">>, <<".">> \o Kconstructor, <<".", "0">>,
     <<"[", "0", "]">>, <<"[", "1", "0", "]">>, <<".">>}

RECURSIVE PathTails(_)
PathTails(n) ==
    IF n = 0 THEN {<<>>}
    ELSE {<<>>} \cup {p \o t : p \in NextPieces, t \in PathTails(n - 1)}

Paths == {f \o t : f \in FirstPieces, t \in PathTails(MaxSegs - 1)}

\* Issues as zod reports them.  A failed union carries unionErrors (one ZodError
\* per branch) in zod 3 and no such key in zod 4.
Messages == {"m1", "m2"}
IssuePaths == {<<>>, <<Key(Ka)>>}
UnionPaths == {<<>>, <<Key(Ka)>>}

\* Paths of one segment, raised with one message each: the number 0 and the
\* key "0", the name of a member of Object.prototype, and a numeral too large
\* for an array index.
OddIssues ==
    {[path |-> <<Index(0)>>, message |-> "m1"],
     [path |-> <<Key(<<"0">>)>>, message |-> "m2"],
     [path |-> <<Key(Kconstructor)>>, message |-> "m1"],
     [path |-> <<Key(IndexLimit)>>, message |-> "m1"]}

Issue(code, path, message, has, unionErrors) ==
    [code |-> code, path |-> path, message |-> message,
     hasUnionErrors |-> has, unionErrors |-> unionErrors]

PlainIssues ==
    {Issue("custom", p, m, FALSE, <<>>) : p \in IssuePaths, m \in Messages}
        \cup {Issue("custom", o.path, o.message, FALSE, <<>>) : o \in OddIssues}
        \cup {Issue("invalid_union", p, "Invalid input", FALSE, <<>>) : p \in UnionPaths}

RECURSIVE ListsOfSize(_)
RECURSIVE IssuesOfSize(_)
RECURSIVE BranchesOfSize(_)
ListsOfSize(n) ==
    IF n = 0 THEN {<<>>}
    ELSE UNION {{<<i>> \o r : i \in IssuesOfSize(k), r \in ListsOfSize(n - k)} : k \in 1..n}

IssuesOfSize(k) ==
    IF k = 1 THEN PlainIssues
    ELSE {Issue("invalid_union", p, "Invalid input", TRUE, bs) :
              p \in UnionPaths, bs \in BranchesOfSize(k - 1)}

BranchesOfSize(n) ==
    IF n = 0 THEN {<<>>}
    ELSE UNION {{<<[issues |-> l]>> \o r : l \in ListsOfSize(k), r \in BranchesOfSize(n - k)} :
                    k \in 1..n}

IssueLists(n) == UNION {ListsOfSize(k) : k \in 1..n}

ParseValues == {Obj(Ka :> Num(7))}
ParseData == {Obj(Ka :> Num(7)), Obj(Ka :> Num(9))}

ParseOutcomes(n) ==
    {Success(d) : d \in ParseData} \cup {Failure(l) : l \in IssueLists(n)} \cup {Rejected}

AllParseOutcomes == ParseOutcomes(MaxIssues)
FewParseOutcomes == ParseOutcomes(1)

\* cast's arguments: values that are no plain object, and objects over a and d.
FieldValues == {Num(7), Undefined, Obj(Ka :> Num(7)), Obj(Kc :> Num(7))}
CastObjects ==
    {Obj(f) : f \in UNION {[D -> FieldValues] : D \in SUBSET {Ka, Kd}}}
CastValues == {Num(7), NullValue, ArrayValue, Undefined} \cup CastObjects

StrictOutcomes ==
    {[ok |-> TRUE, data |-> d] : d \in {Num(7), Obj(Ka :> Num(7))}}
        \cup {[ok |-> FALSE, data |-> Undefined]}

\* ----------------------------------------------------------------- actions

NoCall == [op |-> "none"]
NoExt == [outcome |-> "none"]

Init ==
    /\ schemas = BoundSchemas
    /\ providers = DeclaredProviders
    /\ mergeWrites \in BOOLEAN
    /\ pending = {}
    /\ last = NoCall

\* describe(path) on facade f.
Describe(f, path) ==
    /\ last' = [op |-> "describe", facade |-> f, arg |-> path, ext |-> NoExt,
                threw |-> FALSE, result |-> describe(path, schemas[f])]
    /\ UNCHANGED <<mergeWrites, schemas, providers, pending>>

\* What merge(defaults, values) leaves in the objects the providers returned
\* when it writes into its target: defaults holds those objects themselves
\* (getDefaults copies nothing), so a field of values that is an object is
\* merged into the provider's object of that field, at any depth of the shape.
\* The schemas bound here declare each provider for one field.
RECURSIVE MergedInPlace(_, _, _, _)
MergedInPlace(schema, values, provs, keys) ==
    IF keys = {} THEN provs
    ELSE LET k == CHOOSE x \in keys : TRUE
             field == schema.shape[k]
             v == values.f[k]
             after ==
                 IF /\ field.instanceOf = "ZodDefault" /\ isObject(v)
                    /\ isObject(provs[field.defaultValue].value)
                 THEN [provs EXCEPT ![field.defaultValue].value = merge(@, v)]
                 ELSE IF field.instanceOf = "ZodObject" /\ isObject(v)
                 THEN MergedInPlace(field, v, provs,
                                    (DOMAIN field.shape) \cap (DOMAIN v.f))
                 ELSE provs
         IN  MergedInPlace(schema, values, after, keys \ {k})

\* cast(values) on facade f, with what the strict parse did.  The fallback
\* hands merge the defaults, and with them the providers' objects, as its target.
Cast(f, values, strict) ==
    LET r == cast(schemas[f], values, strict)
        merged == /\ ~strict.ok /\ ~r.threw
                  /\ schemas[f].instanceOf = "ZodObject" /\ isObject(values)
    IN  /\ last' = [op |-> "cast", facade |-> f, arg |-> values, ext |-> strict,
                    threw |-> r.threw, result |-> r.value]
        /\ providers' =
               IF merged /\ mergeWrites
               THEN MergedInPlace(schemas[f], values, providers,
                                  (DOMAIN schemas[f].shape) \cap (DOMAIN values.f))
               ELSE providers
        /\ UNCHANGED <<mergeWrites, schemas, pending>>

\* parse(value) on facade f up to its await.  The suspended calls are a set:
\* two suspended calls of one facade with one value are alike.
ParseCall(f, value) ==
    LET call == [facade |-> f, value |-> value]
    IN  /\ Cardinality(pending) < MaxPending
        /\ call \notin pending
        /\ pending' = pending \cup {call}
        /\ UNCHANGED <<mergeWrites, schemas, providers, last>>

\* parse(value) on facade f when the call of safeParseAsync itself throws: the
\* promise of parse rejects and nothing is awaited.
ParseThrow(f, value) ==
    LET r == parse(value, ThrewSync)
    IN  /\ last' = [op |-> "parse", facade |-> f, arg |-> value, ext |-> ThrewSync,
                    threw |-> (r = Thrown), result |-> r]
        /\ UNCHANGED <<mergeWrites, schemas, providers, pending>>

\* A suspended parse resumes with what the promise of safeParseAsync settled to.
ParseResume(call, result) ==
    LET r == parse(call.value, result)
    IN  /\ call \in pending
        /\ pending' = pending \ {call}
        /\ last' = [op |-> "parse", facade |-> call.facade, arg |-> call.value,
                    ext |-> result, threw |-> (r = Thrown), result |-> r]
        /\ UNCHANGED <<mergeWrites, schemas, providers>>

\* ---------------------------------------------------------- specifications

\* The first call on fresh facades: describe alone, over every path.
NextDescribe == \E f \in Facades, path \in Paths : last = NoCall /\ Describe(f, path)
SpecDescribe == Init /\ [][NextDescribe]_vars

\* The first call on fresh facades: cast alone.
NextCast ==
    \E f \in Facades, v \in CastValues, s \in StrictOutcomes :
        last = NoCall /\ Cast(f, v, s)
SpecCast == Init /\ [][NextCast]_vars

\* The first call on fresh facades: one parse, over every outcome of the
\* validation.
NextParse ==
    \/ \E f \in ParseFacades, v \in ParseValues :
           last = NoCall /\ pending = {} /\ ParseCall(f, v)
    \/ \E f \in ParseFacades, v \in ParseValues :
           last = NoCall /\ pending = {} /\ ParseThrow(f, v)
    \/ \E c \in pending, r \in AllParseOutcomes : last = NoCall /\ ParseResume(c, r)
SpecParse == Init /\ [][NextParse]_vars

\* Every operation on every facade, interleaved, parse calls overlapping.
FewPaths == {<<>>, Ka, <<"c", "[", "0", "]", ".", "c">>, <<"a", ".", "x">>}
FewParseValues == {Obj(Ka :> Num(7)), Obj(Ka :> Num(8))}
FewCastValues ==
    {Num(7), Obj(Kd :> Num(7)), Obj(Ka :> Obj(Ka :> Num(7))), Obj(Kd :> Obj(Kc :> Num(7)))}
Next ==
    \/ \E f \in Facades, path \in FewPaths : Describe(f, path)
    \/ \E f \in Facades, v \in FewCastValues, s \in StrictOutcomes : Cast(f, v, s)
    \/ \E f \in ParseFacades, v \in FewParseValues : ParseCall(f, v)
    \/ \E f \in ParseFacades, v \in FewParseValues : ParseThrow(f, v)
    \/ \E c \in pending, r \in FewParseOutcomes : ParseResume(c, r)
Spec == Init /\ [][Next]_vars

\* ------------------------------------------------------- the claims: parse

Range(s) == {s[i] : i \in DOMAIN s}

\* A parse whose validation settled to a failure, and one that returned its
\* errors list.
FailedParse == last.op = "parse" /\ last.ext.outcome = "resolved" /\ ~last.ext.success
ReturnedErrors == FailedParse /\ ~last.threw

NormPath(issue) == normalizeFormPath(Join(issue.path))
IsUnion(issue) == issue.code = "invalid_union"

\* Every issue of a failed validation, those carried in unionErrors included.
RECURSIVE Nodes(_)
Nodes(issues) ==
    UNION {{issues[i]} \cup
           (IF IsUnion(issues[i]) /\ issues[i].hasUnionErrors
            THEN UNION {Nodes(b.issues) : b \in Range(issues[i].unionErrors)}
            ELSE {}) : i \in DOMAIN issues}

EntryPaths(es) == {es[i].path : i \in DOMAIN es}
OnePerPath(es) == \A i, j \in DOMAIN es : es[i].path = es[j].path => i = j
Raised(es, n) ==
    \E i \in DOMAIN es : es[i].path = NormPath(n) /\ n.message \in Range(es[i].errors)

\* C1: when the asynchronous safe-validate succeeds, parse returns exactly the
\* data the schema library reported as its value, and an empty errors list.
C1_ParseSuccess ==
    (last.op = "parse" /\ last.ext.outcome = "resolved" /\ last.ext.success) =>
        /\ ~last.threw
        /\ DOMAIN last.result = {"value", "errors"}
        /\ last.result.value = last.ext.data
        /\ last.result.errors = <<>>

\* A successful parse whose data is not the value passed in (a transform).
C1_Witness ==
    /\ last.op = "parse" /\ last.ext.outcome = "resolved" /\ last.ext.success
    /\ last.ext.data # last.arg
    /\ last.result.value = last.ext.data

\* C2 as stated: every failed validation ends in a returned result with no
\* value key, exactly one entry per distinct normalized path among the reported
\* issues, and every message raised against a path in that path's entry.
C2_Original ==
    FailedParse =>
        /\ ~last.threw
        /\ "value" \notin DOMAIN last.result
        /\ OnePerPath(last.result.errors)
        /\ EntryPaths(last.result.errors) = {NormPath(n) : n \in Nodes(last.ext.issues)}
        /\ \A n \in Nodes(last.ext.issues) : Raised(last.result.errors, n)

RECURSIVE CountContributing(_)
CountContributing(issues) ==
    IF issues = <<>> THEN 0
    ELSE LET i == Head(issues)
         IN  (IF IsUnion(i) /\ NormPath(i) = <<>> THEN 0 ELSE 1)
                 + (IF IsUnion(i) /\ i.hasUnionErrors
                    THEN CountContributing(FlatMapIssues(i.unionErrors)) ELSE 0)
                 + CountContributing(Tail(issues))

RECURSIVE TotalMessages(_)
TotalMessages(es) ==
    IF es = <<>> THEN 0 ELSE Len(Head(es).errors) + TotalMessages(Tail(es))

NoUnionMessage(es) ==
    \A i \in DOMAIN es : "Invalid input" \notin Range(es[i].errors)

\* C4 as stated: the errors of a failed parse hold the issues of every union
\* branch and no entry or message for a failed union itself, whatever its path.
C4_Original ==
    ReturnedErrors =>
        /\ \A n \in Nodes(last.ext.issues) : ~IsUnion(n) => Raised(last.result.errors, n)
        /\ NoUnionMessage(last.result.errors)

\* C4 amended: the error list parse produces holds the issues of every union
\* branch carried in unionErrors, flattened recursively, and nothing else; a
\* failed union adds no entry or message of its own when its normalized path is
\* empty, and adds its own message to its path's entry, after its branches'
\* messages, otherwise.
C4_UnionFlattened ==
    ReturnedErrors =>
        LET es == last.result.errors
            top == last.ext.issues
        IN  /\ \A n \in Nodes(top) :
                   (~IsUnion(n) \/ NormPath(n) # <<>>) => Raised(es, n)
            /\ \A i \in DOMAIN es :
                   es[i].path = <<>> => "Invalid input" \notin Range(es[i].errors)
            /\ TotalMessages(es) = CountContributing(top)
            /\ (Len(top) = 1 /\ IsUnion(top[1]) /\ NormPath(top[1]) # <<>>) =>
                   \E i \in DOMAIN es :
                       /\ es[i].path = NormPath(top[1])
                       /\ es[i].errors[Len(es[i].errors)] = "Invalid input"

\* A failed union on a field, holding a branch with a failed union that holds a
\* branch issue in turn: both levels flattened, the field's own message kept.
C4_Witness ==
    /\ ReturnedErrors
    /\ \E i \in DOMAIN last.ext.issues :
           LET u == last.ext.issues[i]
           IN  /\ IsUnion(u) /\ u.hasUnionErrors /\ NormPath(u) # <<>>
               /\ \E b \in Range(u.unionErrors) : \E n \in Range(b.issues) :
                      IsUnion(n) /\ n.hasUnionErrors
    /\ TotalMessages(last.result.errors) = 2

\* The (path, message) pairs in the order processIssues raises them.
RECURSIVE Raises(_)
Raises(issues) ==
    IF issues = <<>> THEN <<>>
    ELSE LET i == Head(issues)
         IN  (IF IsUnion(i) /\ i.hasUnionErrors
              THEN Raises(FlatMapIssues(i.unionErrors)) ELSE <<>>)
                 \o (IF IsUnion(i) /\ NormPath(i) = <<>> THEN <<>>
                     ELSE <<[path |-> NormPath(i), message |-> i.message]>>)
                 \o Raises(Tail(issues))

FirstSeen(raises, path) ==
    LET at == {k \in DOMAIN raises : raises[k].path = path}
    IN  IF at = {} THEN 0 ELSE CHOOSE k \in at : \A m \in at : k <= m

MessagesAt(raises, path) ==
    LET hits == SelectSeq(raises, LAMBDA r : r.path = path)
    IN  [k \in DOMAIN hits |-> hits[k].message]

\* C7 as stated: the entries of a failed parse are in the order their normalized
\* paths were first seen among the issues, and each entry's messages are in the
\* order the issues raised them.
C7_Original ==
    ReturnedErrors =>
        LET es == last.result.errors
            raises == Raises(last.ext.issues)
        IN  /\ \A i, j \in DOMAIN es :
                   i < j => FirstSeen(raises, es[i].path) < FirstSeen(raises, es[j].path)
            /\ \A i \in DOMAIN es : es[i].errors = MessagesAt(raises, es[i].path)

\* C10 as stated: a failed validation with a non-empty issue list is never
\* reported with an empty errors list.
C10_Original ==
    (ReturnedErrors /\ last.ext.issues # <<>>) => last.result.errors # <<>>

\* ---------------------------------------------------- the claims: describe

\* The schema the first i - 1 segments name, by what the schemas are (whatever
\* class or type name they carry): an object is left through a field it
\* declares, an array through an index, nothing else is left at all.
RECURSIVE Declared(_, _, _)
Declared(segs, i, schema) ==
    IF i = 1 THEN schema
    ELSE LET before == Declared(segs, i - 1, schema)
             p == segs[i - 1]
         IN  IF "shape" \in DOMAIN before
             THEN IF p \in DOMAIN before.shape THEN before.shape[p] ELSE Null
             ELSE IF "type" \in DOMAIN before /\ isIndex(p) THEN before.type
             ELSE Null

NamesField(path, schema) ==
    LET segs == SplitPath(path) IN Declared(segs, Len(segs) + 1, schema) # Null

\* C3 as stated: describe of a path that names no declared field (a missing
\* field, a descent into a schema that is neither object nor array, a segment
\* that is no index applied to an array) returns {required: false, exists: false}.
C3_Original ==
    (last.op = "describe" /\ last.arg # <<>> /\ ~NamesField(last.arg, schemas[last.facade]))
        => last.result = NotFound

\* Where the walk stands before segment i, when every segment before it took it
\* one level down: from a schema the walk takes for an object into a declared
\* field, from one it takes for an array through an index.
RECURSIVE Reached(_, _, _)
Reached(segs, i, schema) ==
    IF i = 1 THEN schema
    ELSE LET before == Reached(segs, i - 1, schema)
             p == segs[i - 1]
         IN  IF before = Null THEN Null
             ELSE IF isObjectSchema(before)
                  THEN IF p \in DOMAIN before.shape THEN before.shape[p] ELSE Null
             ELSE IF isArraySchema(before) /\ isIndex(p) THEN before.type
             ELSE Null

\* The walk leaves an array through an index at segment i, for the first time.
ArrayDescentAt(segs, i, schema) ==
    /\ i \in DOMAIN segs
    /\ isIndex(segs[i])
    /\ isArraySchema(Reached(segs, i, schema))
    /\ \A k \in 1..(i - 1) : ~isArraySchema(Reached(segs, k, schema))

\* C9 as stated: once the walk has descended from an array through an index
\* into the element schema, the element schema is the result, and the segments
\* that remain are not resolved.
C9_Original ==
    last.op = "describe" =>
        LET segs == SplitPath(last.arg)
            root == schemas[last.facade]
        IN  \A i \in DOMAIN segs :
                (isObjectSchema(root) /\ ArrayDescentAt(segs, i, root)) =>
                    last.result = Description(Reached(segs, i, root).type)

\* A segment applied to the schema the walk stands on: an object is left for
\* the field the segment names, an array for its element schema on an index,
\* and a segment that fits neither leaves the walk where it is.
Stepped(schema, p) ==
    IF schema = Null THEN Null
    ELSE IF isObjectSchema(schema)
         THEN IF p \in DOMAIN schema.shape THEN schema.shape[p] ELSE Null
    ELSE IF isArraySchema(schema) /\ isIndex(p) THEN schema.type
    ELSE schema

\* The schema the walk stands on after the first n of the segments rest.
RECURSIVE After(_, _, _)
After(rest, n, schema) ==
    IF n = 0 THEN schema ELSE Stepped(After(rest, n - 1, schema), rest[n])

Found(schema) == IF schema = Null THEN NotFound ELSE Description(schema)

\* C9 amended: after the descent into the element schema the walk goes on: the
\* remaining segments are applied in turn, starting from the element schema, as
\* segments are applied before the descent, and the schema the walk stands on
\* after the last of them is the result.  That is the element schema when no
\* segment remains and when the element is neither object nor array (no segment
\* moves the walk), and a field of the element when one segment remains and the
\* element is an object.
C9_WalkContinues ==
    last.op = "describe" =>
        LET segs == SplitPath(last.arg)
            root == schemas[last.facade]
        IN  \A i \in DOMAIN segs :
                (isObjectSchema(root) /\ ArrayDescentAt(segs, i, root)) =>
                    LET elem == Reached(segs, i, root).type
                        rest == SubSeq(segs, i + 1, Len(segs))
                    IN  /\ last.result = Found(After(rest, Len(rest), elem))
                        /\ rest = <<>> => last.result = Description(elem)
                        /\ (~isObjectSchema(elem) /\ ~isArraySchema(elem)) =>
                               last.result = Description(elem)
                        /\ (Len(rest) = 1 /\ isObjectSchema(elem)) =>
                               last.result
                                   = (IF rest[1] \in DOMAIN elem.shape
                                      THEN Description(elem.shape[rest[1]])
                                      ELSE NotFound)
                        /\ (Len(rest) = 1 /\ isArraySchema(elem)) =>
                               last.result
                                   = Description(IF isIndex(rest[1]) THEN elem.type ELSE elem)

\* describe("c[0].c") on the form: the optional field of the array's elements
\* is described, not the (required) element schema.
C9_Witness ==
    /\ last.op = "describe" /\ last.facade = "form"
    /\ LET segs == SplitPath(last.arg)
       IN  /\ Len(segs) = 3
           /\ ArrayDescentAt(segs, 2, schemas["form"])
           /\ segs[3] = Kc
    /\ last.result = [required |-> FALSE, exists |-> TRUE]
    /\ Description(Elem) = [required |-> TRUE, exists |-> TRUE]

\* -------------------------------------------------------- the claims: cast

\* Default extraction takes a schema for object-shaped, and a field for one
\* with a declared default provider, by the class it is an instance of.
ObjectShaped(schema) == schema.instanceOf = "ZodObject"
HasProvider(field) == field.instanceOf = "ZodDefault"

\* The extracted defaults as the claim states them, for an object-shaped schema
\* whose providers return: per declared field the provider's value, else the
\* extracted defaults of an object-shaped field, else undefined.
RECURSIVE ClaimedDefaults(_)
ClaimedDefaults(schema) ==
    Obj([k \in DOMAIN schema.shape |->
            LET field == schema.shape[k]
            IN  IF HasProvider(field) THEN providers[field.defaultValue].value
                ELSE IF ObjectShaped(field) THEN ClaimedDefaults(field)
                ELSE Undefined])

\* res is d overridden by v: v's fields win, field by field inside objects.
RECURSIVE Overrides(_, _, _)
Overrides(res, d, v) ==
    /\ isObject(res)
    /\ DOMAIN res.f = (DOMAIN d.f) \cup (DOMAIN v.f)
    /\ \A k \in DOMAIN res.f :
           IF k \notin DOMAIN v.f THEN res.f[k] = d.f[k]
           ELSE IF k \in DOMAIN d.f /\ isObject(d.f[k]) /\ isObject(v.f[k])
                THEN Overrides(res.f[k], d.f[k], v.f[k])
           ELSE res.f[k] = v.f[k]

\* Every default the schema declares has a value to hand out: no provider of
\* it throws.
RECURSIVE DefaultsReturn(_)
DefaultsReturn(schema) ==
    \A k \in DOMAIN schema.shape :
        LET field == schema.shape[k]
        IN  IF HasProvider(field) THEN ~providers[field.defaultValue].throws
            ELSE IF ObjectShaped(field) THEN DefaultsReturn(field)
            ELSE TRUE

\* C5 as stated: when the strict parse throws, cast returns the extracted
\* defaults overridden by the caller's fields if the schema is object-shaped and
\* the input a plain mapping, and the input unchanged otherwise.
C5_Original ==
    LET root == schemas[last.facade]
    IN  (/\ last.op = "cast" /\ ~last.ext.ok
         /\ ObjectShaped(root) => DefaultsReturn(root)) =>
            /\ ~last.threw
            /\ IF ObjectShaped(root) /\ isObject(last.arg)
               THEN Overrides(last.result, ClaimedDefaults(root), last.arg)
               ELSE last.result = last.arg

\* -------------------------------------------- the claims: every operation

\* C6 as stated: no call of parse, cast or describe ends in an exception.
C6_Original == last.op # "none" => ~last.threw

SameCall(a, b) ==
    /\ a.op # "none" /\ a.op = b.op
    /\ a.facade = b.facade /\ a.arg = b.arg /\ a.ext = b.ext

====
